---- MODULE Spec2Model ----
(***************************************************************************)
(* Post-retrieval processing and answer attribution of the knowledge-base  *)
(* query handler (backend/api/server.go, backend/rag/rag.go):              *)
(*   - citation markers: getCircleNumber (prompt side) and                 *)
(*     extractUsedAnnotations (answer side);                               *)
(*   - handleQuery: per-passage enrichment fan-out, fan-in collector,      *)
(*     per-document check of the "公开形式" marker through the check       *)
(*     queue, the worker pool and publicFormCache.                         *)
(* Texts are sequences of characters; the ten circled digits ①..⑩ are the *)
(* characters "c1".."c10".                                                 *)
(***************************************************************************)
EXTENDS Integers, Sequences, FiniteSets, TLC

\* ------------------------------------------------------------------------
\* Bounds of the model
\* ------------------------------------------------------------------------
\* longest answer text drawn in the extractor specification
MaxLen == 3
\* largest passage position whose prompt marker is built
MaxIndex == 11

\* ------------------------------------------------------------------------
\* Citation markers
\* ------------------------------------------------------------------------
\* circleNumbers := []string{"①", ..., "⑩"}
circleNumbers == <<"c1", "c2", "c3", "c4", "c5", "c6", "c7", "c8", "c9", "c10">>

DigitChar(d) == CASE d = 0 -> "0" [] d = 1 -> "1" [] d = 2 -> "2" [] d = 3 -> "3"
                  [] d = 4 -> "4" [] d = 5 -> "5" [] d = 6 -> "6" [] d = 7 -> "7"
                  [] d = 8 -> "8" [] OTHER -> "9"

RECURSIVE Decimal(_)
\* fmt.Sprintf("%d", n) for n >= 0
Decimal(n) == IF n < 10 THEN <<DigitChar(n)>>
              ELSE Decimal(n \div 10) \o <<DigitChar(n % 10)>>

\* bug variant of getCircleNumber: positions beyond the 10th reuse the symbols
getCircleNumberWrapped(n) ==
    IF n >= 1 THEN <<circleNumbers[((n - 1) % Len(circleNumbers)) + 1]>>
    ELSE <<"(">> \o Decimal(n) \o <<")">>

\* rag.getCircleNumber: the marker the prompt gives to passage position n
getCircleNumber(n) ==
    IF n >= 1 /\ n <= Len(circleNumbers)
    THEN <<circleNumbers[n]>>
    ELSE <<"(">> \o Decimal(n) \o <<")">>

\* strings.Contains(s, sub)
Contains(s, sub) ==
    \E i \in 0..(Len(s) - Len(sub)) :
        \A j \in 1..Len(sub) : s[i + j] = sub[j]

\* bug variant of extractUsedAnnotations: used[i] instead of used[i+1]
extractUsedAnnotationsOffByOne(answer) ==
    {i - 1 : i \in {j \in 1..Len(circleNumbers) : Contains(answer, <<circleNumbers[j]>>)}}

\* api.extractUsedAnnotations: the set of keys the returned map holds (all true)
extractUsedAnnotations(answer) ==
    {i \in 1..Len(circleNumbers) : Contains(answer, <<circleNumbers[i]>>)}

\* the text with piece inserted after its first pos characters
InsertAt(text, pos, piece) ==
    SubSeq(text, 1, pos) \o piece \o SubSeq(text, pos + 1, Len(text))

RECURSIVE SeqsUpTo(_, _)
SeqsUpTo(S, n) ==
    IF n = 0 THEN {<<>>}
    ELSE LET shorter == SeqsUpTo(S, n - 1)
         IN  shorter \cup {Append(s, x) : s \in shorter, x \in S}

\* characters of the answers drawn by the extractor specification
AnswerChars == {"c1", "c2", "c10", "(", "1", ")", "x"}


\* ------------------------------------------------------------------------
\* Bounds and constants of the handler model
\* ------------------------------------------------------------------------
\* capacity of checkQueue (the program's 100, scaled down)
QueueCap == 1
\* the 500 ms of time.Sleep in checkPublicForm, in clock ticks
SleepTicks == 1
\* s.checkWorkers
checkWorkers == 3
\* longest answer text and longest passage list drawn in the handler
MaxAnswerLen == 2
MaxPassages == 3
\* length of the one long passage list (more passages than circled digits)
LongListLen == 11

Requests == {"r1", "r2"}
Workers == 1..checkWorkers

Min(a, b) == IF a < b THEN a ELSE b

\* ------------------------------------------------------------------------
\* Texts of questions and passages.  A character is a token: "pei" is a CJK
\* character (3 bytes in UTF-8), "de" is the stop word "的" (3 bytes), "a",
\* "x", "A", "?" and " " are ASCII, and "blob" is a run of ASCII filler
\* characters that is one byte longer than the response's chunk limit.
\* ------------------------------------------------------------------------
\* const maxChunkContentLength = 2000
maxChunkContentLength == 2000

\* len(string(r)) for one character, in bytes
Width(c) == CASE c \in {"pei", "de"} -> 3
              [] c = "blob" -> maxChunkContentLength + 1
              [] OTHER -> 1

RECURSIVE ByteLen(_)
\* len(s) of a Go string: its number of bytes
ByteLen(s) == IF s = <<>> THEN 0 ELSE Width(Head(s)) + ByteLen(Tail(s))

\* strings.ToLower
ToLower(s) == [i \in 1..Len(s) |-> IF s[i] = "A" THEN "a" ELSE s[i]]

NotSpace(c) == c # " "

\* strings.ReplaceAll(s, " ", "")
StripSpaces(s) == SelectSeq(s, NotSpace)

\* strings.HasPrefix
HasPrefix(s, pre) == Len(pre) <= Len(s) /\ SubSeq(s, 1, Len(pre)) = pre

\* doc.PageContent of the stored passages
PageContent(d) ==
    CASE d = 1 -> <<"pei", "a">>
      [] d = 2 -> <<"pei", " ", "A">>
      [] d = 3 -> <<"x">>
      [] d = 4 -> <<"blob">>
      [] OTHER -> <<"x", "pei", "a">>

Docs == {1, 2, 3, 4, 5}

\* ------------------------------------------------------------------------
\* Passages and their metadata.  A path or file name is a sequence of tokens:
\* a directory token, the file-ID prefix, "_", the original name, the extension.
\* ------------------------------------------------------------------------
DirTokens == {"uploads/"}
\* prefixes that have the 36-character, five-part UUID shape
UUIDTokens == {"f1", "f2"}

\* Metadata["source"] of passage p
SourceOf(p) ==
    CASE p = 3 -> <<"uploads/", "f2", "_", "b", ".txt">>
      [] p \in {4, 9} -> <<"http://", "u">>
      [] p \in {6, 7} -> <<>>
      [] OTHER -> <<"uploads/", "f1", "_", "a", ".pdf">>

\* Metadata["file_name"] of passage p (absent: the empty text)
FileNameOf(p) ==
    CASE p = 6 -> <<"a", ".pdf">>
      [] p = 7 -> <<"f2", "_", "a", ".pdf">>
      [] p = 8 -> <<"f2", "_", "b", ".txt">>
      [] p = 9 -> <<"f1", "_", "c", ".txt">>
      [] OTHER -> <<>>

\* passages that carry file_name metadata
MetaDocs == {6, 7, 8, 9}

\* filepath.Base
Base(path) ==
    LET dirs == {i \in 1..Len(path) : path[i] \in DirTokens}
    IN  IF dirs = {} THEN path
        ELSE SubSeq(path, (CHOOSE i \in dirs : \A j \in dirs : j <= i) + 1, Len(path))

\* strings.Index(name, "_"), 0-based; -1 when absent
IndexUnderscore(name) ==
    LET at == {i \in 1..Len(name) : name[i] = "_"}
    IN  IF at = {} THEN -1 ELSE (CHOOSE i \in at : \A j \in at : i <= j) - 1

\* api.extractOriginalFilename: strips a UUID-shaped prefix and its "_"
extractOriginalFilename(filename) ==
    LET idx == IndexUnderscore(filename)
    IN  IF /\ filename # <<>>
           /\ idx > 0
           /\ idx = 1 /\ filename[1] \in UUIDTokens
           /\ SubSeq(filename, idx + 2, Len(filename)) # <<>>
        THEN SubSeq(filename, idx + 2, Len(filename))
        ELSE filename

\* the prefix before the first "_" (fileID), empty when there is none
PrefixBeforeUnderscore(name) ==
    LET idx == IndexUnderscore(name)
    IN  IF idx > 0 THEN SubSeq(name, 1, idx) ELSE <<>>

\* strings.ToLower(filepath.Ext(name)) without its dot
ExtOf(name) ==
    IF name = <<>> THEN ""
    ELSE CASE name[Len(name)] \in {".pdf", ".PDF"} -> "pdf"
           [] name[Len(name)] = ".txt" -> "txt"
           [] name[Len(name)] = ".docx" -> "docx"
           [] name[Len(name)] = ".doc" -> "doc"
           [] name[Len(name)] = ".md" -> "md"
           [] OTHER -> ""

IsURL(source) == source # <<>> /\ source[1] \in {"http://", "https://"}

\* bug variant of OriginalIndex: the 0-based loop index is recorded
OriginalIndexZeroBased(idx) == idx

\* originalIndex := idx + 1, idx the 0-based loop index over queryResult.Results
OriginalIndex(idx) == idx + 1

\* the body of one enrichment goroutine: the docProcessResult it sends
Enrichment(idx, d) ==
    LET source == SourceOf(d)
        hasSource == source # <<>>
        url == IsURL(source)
        baseName == Base(source)
        title0 == IF ~hasSource THEN <<>>
                  ELSE IF url THEN source ELSE extractOriginalFilename(baseName)
        fileID0 == IF hasSource /\ ~url THEN PrefixBeforeUnderscore(baseName) ELSE <<>>
        fileType0 == IF hasSource /\ ~url THEN ExtOf(title0) ELSE ""
        fileName == FileNameOf(d)
        orig == extractOriginalFilename(fileName)
        title1 == IF fileName # <<>> /\ orig # <<>> THEN orig ELSE title0
        fileID1 == IF fileName # <<>> /\ IndexUnderscore(fileName) > 0
                   THEN PrefixBeforeUnderscore(fileName) ELSE fileID0
        fileType1 == IF fileName # <<>> /\ ExtOf(orig) # "" THEN ExtOf(orig) ELSE fileType0
        docTitle == IF title1 = <<>> THEN <<"untitled">> ELSE title1
        result == [index |-> OriginalIndex(idx), content |-> d,
                   bytes |-> ByteLen(PageContent(d)),
                   source |-> source, title |-> docTitle]
    IN  [index |-> OriginalIndex(idx),
         result |-> result,
         groupKey |-> IF source = <<>> THEN docTitle ELSE source,
         group |-> [DocTitle |-> docTitle, DocSource |-> source,
                    SourceType |-> IF ~hasSource THEN "" ELSE IF url THEN "url" ELSE "file",
                    FileType |-> fileType1, FileID |-> fileID1,
                    Chunks |-> <<result>>, HasPublicForm |-> FALSE]]

\* bug variant of Merge: an existing group's chunk list is replaced, not extended
MergeReplacing(groups, res) ==
    IF res.groupKey \in DOMAIN groups
    THEN [groups EXCEPT ![res.groupKey].Chunks = <<res.result>>]
    ELSE [k \in DOMAIN groups \cup {res.groupKey} |->
             IF k = res.groupKey THEN res.group ELSE groups[k]]

\* bug variant of Merge: a later passage's fileType and fileID replace the group's
MergeOverwriting(groups, res) ==
    IF res.groupKey \in DOMAIN groups
    THEN LET g == groups[res.groupKey]
         IN  [groups EXCEPT ![res.groupKey] =
                 [g EXCEPT !.FileType = IF res.group.FileType # ""
                                        THEN res.group.FileType ELSE g.FileType,
                           !.FileID = IF res.group.FileID # <<>>
                                      THEN res.group.FileID ELSE g.FileID,
                           !.Chunks = Append(g.Chunks, res.result)]]
    ELSE [k \in DOMAIN groups \cup {res.groupKey} |->
             IF k = res.groupKey THEN res.group ELSE groups[k]]

\* the collector's merge of one docProcessResult into docGroupsMap
Merge(groups, res) ==
    IF res.groupKey \in DOMAIN groups
    THEN LET g == groups[res.groupKey]
         IN  [groups EXCEPT ![res.groupKey] =
                 [g EXCEPT !.FileType = IF res.group.FileType # "" /\ g.FileType = ""
                                        THEN res.group.FileType ELSE g.FileType,
                           !.FileID = IF res.group.FileID # <<>> /\ g.FileID = <<>>
                                      THEN res.group.FileID ELSE g.FileID,
                           !.Chunks = Append(g.Chunks, res.result)]]
    ELSE [k \in DOMAIN groups \cup {res.groupKey} |->
             IF k = res.groupKey THEN res.group ELSE groups[k]]

\* bug variant of SortByIndex: the flat list stays in arrival order
SortByIndexArrival(s) == s

RECURSIVE SortByIndex(_)
\* sort.Slice(searchResults, by index): the indices are distinct, so the order
\* of the result is determined
SortByIndex(s) ==
    IF s = <<>> THEN <<>>
    ELSE LET m == CHOOSE i \in 1..Len(s) : \A j \in 1..Len(s) : s[i].index <= s[j].index
             others == [k \in 1..(Len(s) - 1) |-> IF k < m THEN s[k] ELSE s[k + 1]]
         IN  <<s[m]>> \o SortByIndex(others)

\* rag.buildPrompt: the marker and the passage of every position of the list
buildPrompt(results) ==
    [i \in 1..Len(results) |-> [marker |-> getCircleNumber(i), passage |-> results[i]]]

\* the file types checkPublicForm and checkPublicFormAsync look at
Eligible(fileType) == fileType \in {"pdf", "doc", "docx", "txt"}

\* ------------------------------------------------------------------------
\* Stored files: s.files and the uploads directory
\* ------------------------------------------------------------------------
FileIDs == {<<"f1">>, <<"f2">>}

\* the last 100 characters of the stored file, as tokens; "PF" is "公开形式"
FileTail(fid) == IF fid = <<"f1">> THEN <<"x", "PF", ":", "no">> ELSE <<"x", "x">>

\* api.checkPublicFormInContent
checkPublicFormInContent(content) ==
    IF content = <<>> THEN FALSE ELSE Contains(content, <<"PF">>)

\* ------------------------------------------------------------------------
\* rag.reRankResults
\* ------------------------------------------------------------------------
\* stopWords of reRankResults ("的", "有", "几", "条", ...), one character each
rerankStopWords == {"de"}

NotRerankStop(c) == c \notin rerankStopWords

NoRerankStop(phrase) ==
    phrase # <<>> /\ \A j \in 1..Len(phrase) : phrase[j] \notin rerankStopWords

\* the phrases of 2, 3 and 4 characters that start at character i (1-based)
\* and hold no stop word, in the order the inner loop appends them
PhrasesAt(q, i) ==
    SelectSeq([l \in 1..3 |-> IF i + l <= Len(q) THEN SubSeq(q, i, i + l) ELSE <<>>],
              NoRerankStop)

RECURSIVE KeywordsFrom(_, _)
KeywordsFrom(q, i) ==
    IF i > Len(q) - 1 THEN <<>> ELSE PhrasesAt(q, i) \o KeywordsFrom(q, i + 1)

\* keywords of reRankResults: the phrases, or the whole question when none
keywords(question) ==
    LET lowerQuestion == ToLower(question)
        ks == KeywordsFrom(lowerQuestion, 1)
    IN  IF ks = <<>> THEN <<lowerQuestion>> ELSE ks

\* a keyword matches a passage (directly or with the spaces taken out)
KeywordMatches(lowerContent, keyword) ==
    \/ Contains(StripSpaces(lowerContent), StripSpaces(keyword))
    \/ Contains(lowerContent, keyword)

\* the lexical score of one passage, before the rank is subtracted
LexScore(question, content) ==
    LET lowerQuestion == ToLower(question)
        lowerContent == ToLower(content)
        contentNoSpace == StripSpaces(lowerContent)
        phraseWithoutStopWords == SelectSeq(lowerQuestion, NotRerankStop)
        ks == keywords(question)
        matched == {n \in 1..Len(ks) : KeywordMatches(lowerContent, ks[n])}
        bonus == {n \in matched : \/ HasPrefix(lowerContent, ks[n])
                                  \/ Contains(lowerContent, ks[n] \o <<" ">>)}
    IN  (IF Contains(lowerContent, lowerQuestion) THEN 100 ELSE 0)
        + (IF /\ phraseWithoutStopWords # <<>>
              /\ \/ Contains(lowerContent, phraseWithoutStopWords)
                 \/ Contains(contentNoSpace, phraseWithoutStopWords)
           THEN 80 ELSE 0)
        + 20 * Cardinality(matched)
        + 10 * Cardinality(bonus)
        + (IF Cardinality(matched) = Len(ks) /\ Len(ks) > 0 THEN 50 ELSE 0)

\* score: score - i, i the 0-based original rank
FinalScore(lex, i) == lex - i

\* scoredDocs before the sort
ScoredDocs(question, allResults) ==
    [n \in 1..Len(allResults) |->
        [doc |-> allResults[n],
         score |-> FinalScore(LexScore(question, PageContent(allResults[n])), n - 1),
         index |-> n - 1]]

Swap(s, i, j) == [s EXCEPT ![i] = s[j], ![j] = s[i]]

RECURSIVE SortInner(_, _, _)
\* for j := i + 1; j < len; j++ { if s[j].score > s[i].score { swap } }
SortInner(s, i, j) ==
    IF j > Len(s) THEN s
    ELSE SortInner(IF s[j].score > s[i].score THEN Swap(s, i, j) ELSE s, i, j + 1)

RECURSIVE SortOuter(_, _)
\* for i := 0; i < len - 1; i++
SortOuter(s, i) ==
    IF i >= Len(s) THEN s ELSE SortOuter(SortInner(s, i, i + 1), i + 1)

SortByScore(s) == SortOuter(s, 1)

OriginalScorePositive(sd) == sd.score + sd.index > 0

FirstN(s, n) == SubSeq(s, 1, Min(n, Len(s)))

\* bug variant of EarlyReturn: every list is scored and cut
EarlyReturnNever(allResults, topK) == FALSE

\* if len(allResults) <= topK { return allResults }
EarlyReturn(allResults, topK) == Len(allResults) <= topK

\* the selection loop: the first topK entries of the sorted list whose
\* original score (score + index) is > 0
Selected(sorted, topK) == FirstN(SelectSeq(sorted, OriginalScorePositive), topK)

\* rag.reRankResults.  make([]schema.Document, 0, topK) panics when topK is
\* negative; the panic leaves the function without a result.  scored says
\* whether the scoring path ran, sorted is scoredDocs after the sort, picks
\* are the entries of the returned passages (rank and score).
reRankResults(question, allResults, topK) ==
    IF EarlyReturn(allResults, topK)
    THEN [panic |-> FALSE, scored |-> FALSE, docs |-> allResults, sorted |-> <<>>,
          picks |-> <<>>]
    ELSE LET sorted == SortByScore(ScoredDocs(question, allResults))
         IN  IF topK < 0
             THEN [panic |-> TRUE, scored |-> TRUE, docs |-> <<>>, sorted |-> sorted,
                   picks |-> <<>>]
             ELSE LET kept == Selected(sorted, topK)
                      picks == IF kept # <<>> THEN kept
                               ELSE FirstN(ScoredDocs(question, allResults), topK)
                  IN  [panic |-> FALSE, scored |-> TRUE,
                       docs |-> [n \in 1..Len(picks) |-> picks[n].doc],
                       sorted |-> sorted, picks |-> picks]

\* ------------------------------------------------------------------------
\* rag.filterRelevantResults
\* ------------------------------------------------------------------------
\* the one-character keys of filterRelevantResults' stopWords; its
\* two-character keys ("什么", "怎么", ...) never equal a single character
filterStopWords == {"de", "?"}

RECURSIVE CoreScan(_, _, _)
\* the loop over the question's characters: cur is currentKeyword, acc the
\* keywords found so far; a keyword is kept when len(currentKeyword) >= 2 bytes
CoreScan(q, cur, acc) ==
    IF q = <<>> THEN (IF ByteLen(cur) >= 2 THEN Append(acc, cur) ELSE acc)
    ELSE IF Head(q) \notin filterStopWords /\ Head(q) # " "
         THEN CoreScan(Tail(q), Append(cur, Head(q)), acc)
         ELSE CoreScan(Tail(q), <<>>, IF ByteLen(cur) >= 2 THEN Append(acc, cur) ELSE acc)

coreKeywords(question) == CoreScan(ToLower(question), <<>>, <<>>)

\* hasRelevantKeyword of one passage
HasRelevantKeyword(question, d) ==
    LET lowerContent == ToLower(PageContent(d))
        contentNoSpace == StripSpaces(lowerContent)
        cks == coreKeywords(question)
    IN  \E n \in 1..Len(cks) :
            \/ Contains(lowerContent, cks[n])
            \/ Contains(contentNoSpace, StripSpaces(cks[n]))

RECURSIVE FilterDocs(_, _)
FilterDocs(question, results) ==
    IF results = <<>> THEN <<>>
    ELSE (IF HasRelevantKeyword(question, Head(results)) THEN <<Head(results)>> ELSE <<>>)
         \o FilterDocs(question, Tail(results))

\* the number of passages kept when the filter would leave none
maxKeep == 3

\* bug variant of filterRelevantResults: no fallback to the first passages
filterRelevantResultsNoFallback(question, results) ==
    IF results = <<>> \/ coreKeywords(question) = <<>> THEN results
    ELSE FilterDocs(question, results)

\* bug variant of filterRelevantResults: the fallback skips the first passage
filterRelevantResultsFallbackTail(question, results) ==
    IF results = <<>> \/ coreKeywords(question) = <<>> THEN results
    ELSE LET filtered == FilterDocs(question, results)
         IN  IF filtered = <<>> /\ Len(results) > 1
             THEN FirstN(Tail(results), maxKeep) ELSE
             IF filtered = <<>> THEN results ELSE filtered

\* rag.filterRelevantResults
filterRelevantResults(question, results) ==
    IF results = <<>> THEN results
    ELSE IF coreKeywords(question) = <<>> THEN results
    ELSE LET filtered == FilterDocs(question, results)
         IN  IF filtered = <<>> THEN FirstN(results, maxKeep) ELSE filtered

VARIABLES
    xAnswer,    \* extractor run: the answer text
    xStage,     \* extractor run: "text" (not yet extracted) or "extracted"
    xUsed,      \* extractor run: result of extractUsedAnnotations
    xPrevUsed,  \* extractor run: result on the text before a marker was added
    xAdded,     \* extractor run: position whose marker was added (0: none)
    kQuestion,  \* ranking run: the question
    kAll,       \* ranking run: allResults, the candidates in search order
    kTopK,      \* ranking run: topK
    kStage,     \* ranking run: "none", "input", "panicked", "ranked", "filtered", "refiltered"
    kRanked,    \* ranking run: outcome of reRankResults
    kFiltered,  \* ranking run: filterRelevantResults of the ranked passages
    kTwice,     \* ranking run: filterRelevantResults of kFiltered
    gClock,     \* generation run: seconds since the handler created its context
    gParent,    \* generation run: the handler's context: "live", "canceled", "expired"
    gLlmStart,  \* generation run: gClock when llmCtx was created (-1: not yet)
    gCall,      \* generation run: "none", "before", "running", "ok", "err"
    gCause,     \* generation run: why Generate failed ("none" when it did not)
    gCalls,     \* generation run: number of Generate calls
    gReport,    \* generation run: what QueryWithResults returns
    aDocs,      \* ingestion run: len(docs)
    aPc,        \* ingestion run: "none", "start", "submit", "examine", "ok", "failed"
    aBatch,     \* ingestion run: batchNum of the batch in hand (0: none yet)
    aRetry,     \* ingestion run: the retry counter of the inner loop
    aSubmits,   \* ingestion run: store.AddDocuments calls made for the batch in hand
    aErr,       \* ingestion run: err of the last call: "nil", "rate", "other"
    inputs,         \* per request: which input set its query draws from ("none": no query)
    pc,             \* per request: "idle", "enrich", "check", "done"
    qResults,       \* per request: queryResult.Results
    qAnswer,        \* per request: queryResult.Answer
    llmCalls,       \* per request: number of r.llm.Generate calls of its query
    prompt,         \* per request: the prompt's numbered passages
    usedIndices,    \* per request: extractUsedAnnotations(queryResult.Answer)
    unit,           \* per request: state of each enrichment goroutine, by loop index
    resultChan,     \* per request: buffered channel of docProcessResult
    chanClosed,     \* per request: close(resultChan) has run
    searchResults,  \* per request: the flat result list
    docGroupsMap,   \* per request: groupKey -> DocGroup (the shared *DocGroup)
    chk,            \* per request: state of each check goroutine, by groupKey
    rem,            \* per request: ticks left of each check goroutine's Sleep
    waited,         \* per request: ticks elapsed since its check goroutines started
    response,       \* per request: the encoded response
    checkQueue,     \* s.checkQueue: sequence of <<request, groupKey>> (the pointers)
    publicFormCache,\* s.publicFormCache: set of <<fileID, bool>>
    files,          \* s.files: the fileIDs of the stored files
    filesWrite,     \* s.files: the map write a handler is inside (<<>>: none), or
                    \* <<"fatal">> once the runtime has aborted the process
    wpc,            \* per worker: "idle", "check", "store"
    wtask,          \* per worker: the dequeued group pointer
    wverdict,       \* per worker: hasPublicForm computed by checkPublicFormAsync
    wload,          \* per worker: how checkPublicFormAsync ended for the task it holds:
                    \* "none", "unknown" (not in s.files), "failed" (no content read), "read"
    reads,          \* per fileID: number of reads of the stored file
    firstVerdict,   \* per fileID: the first value stored in the cache
    dropped,        \* group pointers whose submission found the queue full
    processed,      \* group pointers a worker has dequeued
    recovered       \* workers that have recovered from a panic

xvars == <<xAnswer, xStage, xUsed, xPrevUsed, xAdded>>

kvars == <<kQuestion, kAll, kTopK, kStage, kRanked, kFiltered, kTwice>>

gvars == <<gClock, gParent, gLlmStart, gCall, gCause, gCalls, gReport>>

avars == <<aDocs, aPc, aBatch, aRetry, aSubmits, aErr>>

purevars == <<xvars, kvars, gvars, avars>>

reqvars == <<pc, qResults, qAnswer, llmCalls, prompt, usedIndices, unit, resultChan,
             chanClosed, searchResults, docGroupsMap, chk, rem, waited, response>>

srvvars == <<checkQueue, publicFormCache, files, filesWrite, wpc, wtask, wverdict, wload, reads,
             firstVerdict, dropped, processed, recovered>>

hvars == <<inputs, reqvars, srvvars>>

vars == <<purevars, hvars>>

\* ------------------------------------------------------------------------
\* The server after NewServer: empty queue and cache, idle workers
\* ------------------------------------------------------------------------
NoFn == [k \in {} |-> 0]

HStart(in) ==
    /\ inputs = in
    /\ pc = [r \in Requests |-> "idle"]
    /\ qResults = [r \in Requests |-> <<>>]
    /\ qAnswer = [r \in Requests |-> <<>>]
    /\ llmCalls = [r \in Requests |-> 0]
    /\ prompt = [r \in Requests |-> <<>>]
    /\ usedIndices = [r \in Requests |-> {}]
    /\ unit = [r \in Requests |-> NoFn]
    /\ resultChan = [r \in Requests |-> <<>>]
    /\ chanClosed = [r \in Requests |-> FALSE]
    /\ searchResults = [r \in Requests |-> <<>>]
    /\ docGroupsMap = [r \in Requests |-> NoFn]
    /\ chk = [r \in Requests |-> NoFn]
    /\ rem = [r \in Requests |-> NoFn]
    /\ waited = [r \in Requests |-> 0]
    /\ response = [r \in Requests |-> [sent |-> FALSE, answer |-> <<>>, results |-> <<>>,
                                       docGroups |-> NoFn]]
    /\ checkQueue = <<>>
    /\ publicFormCache = {}
    /\ files = FileIDs
    /\ filesWrite = <<>>
    /\ wpc = [w \in Workers |-> "idle"]
    /\ wtask = [w \in Workers |-> <<>>]
    /\ wverdict = [w \in Workers |-> FALSE]
    /\ wload = [w \in Workers |-> "none"]
    /\ reads = [f \in FileIDs |-> 0]
    /\ firstVerdict = {}
    /\ dropped = {}
    /\ processed = {}
    /\ recovered = {}

NoRanked == [panic |-> FALSE, scored |-> FALSE, docs |-> <<>>, sorted |-> <<>>, picks |-> <<>>]

\* no ranking run
KQuiet ==
    /\ kQuestion = <<>> /\ kAll = <<>> /\ kTopK = 0 /\ kStage = "none"
    /\ kRanked = NoRanked /\ kFiltered = <<>> /\ kTwice = <<>>

\* no generation run
GQuiet ==
    /\ gClock = 0 /\ gParent = "live" /\ gLlmStart = -1 /\ gCall = "none"
    /\ gCause = "none" /\ gCalls = 0 /\ gReport = "none"

\* no ingestion run
AQuiet ==
    /\ aDocs = 0 /\ aPc = "none" /\ aBatch = 0 /\ aRetry = 0 /\ aSubmits = 0 /\ aErr = "nil"

XQuiet ==
    /\ xAnswer = <<>> /\ xStage = "text" /\ xUsed = {} /\ xPrevUsed = {} /\ xAdded = 0
    /\ KQuiet
    /\ GQuiet
    /\ AQuiet

\* sync.Map Load
CacheHas(fid) == \E e \in publicFormCache : e[1] = fid
CacheGet(fid) == (CHOOSE e \in publicFormCache : e[1] = fid)[2]
\* sync.Map Store
CacheStore(cache, fid, v) == {e \in cache : e[1] # fid} \cup {<<fid, v>>}

\* ------------------------------------------------------------------------
\* Inputs of the handler
\* ------------------------------------------------------------------------
RECURSIVE InjSeqsUpTo(_, _)
\* the lists of at most n distinct elements of S
InjSeqsUpTo(S, n) ==
    IF n = 0 THEN {<<>>}
    ELSE LET shorter == InjSeqsUpTo(S, n - 1)
         IN  shorter \cup UNION {{Append(s, x) : x \in S \ {s[i] : i \in 1..Len(s)}} :
                                     s \in shorter}

\* characters of the answers drawn in the handler
HandlerChars == {"c1", "c2", "c3"}

\* passage lists of the attribution specification: short lists in any order,
\* and one list longer than the marker alphabet
AttrInputs ==
    [results : InjSeqsUpTo(1..4, MaxPassages), answer : SeqsUpTo(HandlerChars, MaxAnswerLen)]
    \cup [results : {[i \in 1..LongListLen |-> i]},
          answer : {<<"c10">>, <<"c10", "c3">>, <<"c9">> \o getCircleNumber(LongListLen)}]

\* inputs of the classification specification: a query citing one or both of
\* two stored documents, and a query citing the first document again
ClassInputs == [results : {<<1, 3>>}, answer : {<<"c1">>, <<"c1", "c2">>}]

ClassInputsAgain == [results : {<<2>>}, answer : {<<"c1">>}]

\* inputs of the grouping specification: passages of the same source or the
\* same title whose metadata give different file types and file IDs
MergeInputs ==
    [results : {<<6, 7, 4>>, <<7, 6, 1>>, <<4, 9, 8>>, <<1, 8, 9>>, <<8, 1, 6>>},
     answer : {<<"c1", "c2">>, <<"c1", "c2", "c3">>}]

\* input of the panic specification: three cited passages of two documents
PanicInputs == [results : {<<1, 3, 2>>}, answer : {<<"c1", "c2", "c3">>}]

\* searchTopK is kept between 15 and 50
minSearchTopK == 15
maxSearchTopK == 50

\* req.TopK = 3 when the request gives none
defaultTopK == 3

\* the fixed answer "抱歉，我在知识库中没有找到相关信息。": it holds no marker
Apology == <<"sorry">>

\* bug variant of AnswerFor: the generator is called on an empty passage list
AnswerForAlwaysGenerate(results, generated) ==
    [results |-> results, answer |-> generated, generated |-> TRUE]

\* the end of QueryWithResults: the apology and no Generate call when no
\* passage is left, otherwise the answer the generator gives to the prompt
AnswerFor(results, generated) ==
    IF Len(results) = 0
    THEN [results |-> <<>>, answer |-> Apology, generated |-> FALSE]
    ELSE [results |-> results, answer |-> generated, generated |-> TRUE]

\* inputs of the pipeline specification: the question, the candidates the
\* search returns (none for an empty store), topK and the generator's answer
PipeQuestions == {<<"pei", "a">>, <<"x">>}
PipeCandidates == {<<>>, <<3>>, <<3, 1, 2>>}
PipeAnswers == {<<"c1">>, <<"c1", "c2">>}

\* rag.QueryWithResults on a successful search and generation
QueryWithResults(question, allResults, topK, generated) ==
    LET ranked == reRankResults(question, allResults, topK)
        results == filterRelevantResults(question, ranked.docs)
    IN  AnswerFor(results, generated)

PipeInputs ==
    {QueryWithResults(q, all, k, ans) :
        q \in PipeQuestions, all \in PipeCandidates, k \in {1, defaultTopK}, ans \in PipeAnswers}

Outcomes(S) == {AnswerFor(in.results, in.answer) : in \in S}

InputSet(tag) ==
    CASE tag = "attr" -> Outcomes(AttrInputs)
      [] tag = "class" -> Outcomes(ClassInputs)
      [] tag = "again" -> Outcomes(ClassInputsAgain)
      [] tag = "panic" -> Outcomes(PanicInputs)
      [] tag = "pipe" -> PipeInputs
      [] tag = "merge" -> Outcomes(MergeInputs)
      [] OTHER -> {}

\* ------------------------------------------------------------------------
\* handleQuery, up to the start of the enrichment goroutines
\* ------------------------------------------------------------------------
\* tempRAG.QueryWithResults returns (results, answer); the prompt was built
\* from the same list; extractUsedAnnotations; one goroutine per used loop index
Query(r) ==
    /\ pc[r] = "idle"
    /\ \E in \in InputSet(inputs[r]) :
        LET used == extractUsedAnnotations(in.answer)
            idxs == {i \in 0..(Len(in.results) - 1) : (i + 1) \in used}
        IN  /\ qResults' = [qResults EXCEPT ![r] = in.results]
            /\ qAnswer' = [qAnswer EXCEPT ![r] = in.answer]
            /\ llmCalls' = [llmCalls EXCEPT ![r] = IF in.generated THEN 1 ELSE 0]
            /\ prompt' = [prompt EXCEPT ![r] = IF in.generated THEN buildPrompt(in.results)
                                               ELSE <<>>]
            /\ usedIndices' = [usedIndices EXCEPT ![r] = used]
            /\ unit' = [unit EXCEPT ![r] = [i \in idxs |-> "run"]]
    /\ pc' = [pc EXCEPT ![r] = "enrich"]
    /\ UNCHANGED <<inputs, purevars, srvvars, resultChan, chanClosed, searchResults,
                   docGroupsMap, chk, rem, waited, response>>

\* one enrichment goroutine: builds its record and sends it on resultChan
\* (the buffer holds len(results) records, so the send never blocks)
Enrich(r, i) ==
    /\ pc[r] = "enrich"
    /\ i \in DOMAIN unit[r]
    /\ unit[r][i] = "run"
    /\ ~chanClosed[r]
    /\ resultChan' = [resultChan EXCEPT ![r] = Append(@, Enrichment(i, qResults[r][i + 1]))]
    /\ unit' = [unit EXCEPT ![r][i] = "sent"]
    /\ UNCHANGED <<inputs, purevars, srvvars, pc, qResults, qAnswer, llmCalls, prompt, usedIndices,
                   chanClosed, searchResults, docGroupsMap, chk, rem, waited, response>>

\* bug variant of WaitDone: the channel is closed without waiting for the units
WaitDoneAtOnce(r) == TRUE

\* wg.Wait() returns: every enrichment goroutine has run its deferred wg.Done
WaitDone(r) == \A i \in DOMAIN unit[r] : unit[r][i] # "run"

\* go func() { wg.Wait(); close(resultChan) }()
CloseResultChan(r) ==
    /\ pc[r] = "enrich"
    /\ ~chanClosed[r]
    /\ WaitDone(r)
    /\ chanClosed' = [chanClosed EXCEPT ![r] = TRUE]
    /\ UNCHANGED <<inputs, purevars, srvvars, pc, qResults, qAnswer, llmCalls, prompt, usedIndices, unit,
                   resultChan, searchResults, docGroupsMap, chk, rem, waited, response>>

\* one iteration of the collector loop: for res := range resultChan
Collect(r) ==
    /\ pc[r] = "enrich"
    /\ resultChan[r] # <<>>
    /\ LET res == Head(resultChan[r])
       IN  /\ searchResults' = [searchResults EXCEPT ![r] = Append(@, res.result)]
           /\ docGroupsMap' = [docGroupsMap EXCEPT ![r] = Merge(@, res)]
    /\ resultChan' = [resultChan EXCEPT ![r] = Tail(@)]
    /\ UNCHANGED <<inputs, purevars, srvvars, pc, qResults, qAnswer, llmCalls, prompt, usedIndices, unit,
                   chanClosed, chk, rem, waited, response>>

\* the collector loop ends on the closed, drained channel; the flat list is
\* sorted by index; one check goroutine is started per document group
CollectEnd(r) ==
    /\ pc[r] = "enrich"
    /\ resultChan[r] = <<>>
    /\ chanClosed[r]
    /\ searchResults' = [searchResults EXCEPT ![r] = SortByIndex(@)]
    /\ chk' = [chk EXCEPT ![r] = [k \in DOMAIN docGroupsMap[r] |-> "start"]]
    /\ rem' = [rem EXCEPT ![r] = [k \in DOMAIN docGroupsMap[r] |-> 0]]
    /\ pc' = [pc EXCEPT ![r] = "check"]
    /\ UNCHANGED <<inputs, purevars, srvvars, qResults, qAnswer, llmCalls, prompt, usedIndices, unit,
                   resultChan, chanClosed, docGroupsMap, waited, response>>

\* ------------------------------------------------------------------------
\* handleQuery: the check goroutines (checkPublicForm) and the response
\* ------------------------------------------------------------------------
ChkDone(st) == st \in {"done_skip", "done_cache", "done_nofid", "done_full",
                       "done_waitcache", "done_timeout"}

\* bug variant of MayStart: the documents are checked one after the other
MayStartSerial(r, g) ==
    \A k \in DOMAIN chk[r] : k = g \/ chk[r][k] = "start" \/ ChkDone(chk[r][k])

\* go func(key, g) in the loop over docGroupsMap: every check goroutine runs
\* at once, none waits for another
MayStart(r, g) == TRUE

\* the value checkPublicForm gives a group whose check did not finish
DefaultVerdict == FALSE

SetHas(r, g, v) == [docGroupsMap EXCEPT ![r][g].HasPublicForm = v]

\* checkPublicForm up to the first cache lookup
ChkStart(r, g) ==
    /\ pc[r] = "check"
    /\ g \in DOMAIN chk[r]
    /\ chk[r][g] = "start"
    /\ MayStart(r, g)
    /\ LET grp == docGroupsMap[r][g]
       IN  IF ~Eligible(grp.FileType)
           THEN /\ chk' = [chk EXCEPT ![r][g] = "done_skip"]
                /\ UNCHANGED docGroupsMap
           ELSE IF grp.FileID # <<>> /\ CacheHas(grp.FileID)
           THEN /\ chk' = [chk EXCEPT ![r][g] = "done_cache"]
                /\ docGroupsMap' = SetHas(r, g, CacheGet(grp.FileID))
           ELSE IF grp.FileID = <<>>
           THEN /\ chk' = [chk EXCEPT ![r][g] = "done_nofid"]
                /\ docGroupsMap' = SetHas(r, g, DefaultVerdict)
           ELSE /\ chk' = [chk EXCEPT ![r][g] = "submit"]
                /\ UNCHANGED docGroupsMap
    /\ UNCHANGED <<inputs, purevars, srvvars, pc, qResults, qAnswer, llmCalls, prompt, usedIndices, unit,
                   resultChan, chanClosed, searchResults, rem, waited, response>>

\* bug variant of QueueFull: the send is made whatever the queue holds
QueueFullNever(q) == FALSE

\* select { case s.checkQueue <- group: ... default: ... }: the default branch
\* is taken when the buffer is full
QueueFull(q) == Len(q) >= QueueCap

\* the non-blocking send to checkQueue, then time.Sleep(500ms)
ChkSubmit(r, g) ==
    /\ pc[r] = "check"
    /\ g \in DOMAIN chk[r]
    /\ chk[r][g] = "submit"
    /\ IF QueueFull(checkQueue)
       THEN /\ chk' = [chk EXCEPT ![r][g] = "done_full"]
            /\ docGroupsMap' = SetHas(r, g, DefaultVerdict)
            /\ dropped' = dropped \cup {<<r, g>>}
            /\ UNCHANGED <<checkQueue, rem>>
       ELSE /\ checkQueue' = Append(checkQueue, <<r, g>>)
            /\ chk' = [chk EXCEPT ![r][g] = "sleep"]
            /\ rem' = [rem EXCEPT ![r][g] = SleepTicks]
            /\ UNCHANGED <<docGroupsMap, dropped>>
    /\ UNCHANGED <<inputs, purevars, publicFormCache, files, filesWrite, wpc, wtask, wverdict, wload, reads, firstVerdict,
                   processed, recovered, pc, qResults, qAnswer, llmCalls, prompt, usedIndices, unit,
                   resultChan, chanClosed, searchResults, waited, response>>

\* after the Sleep: the second cache lookup
ChkWake(r, g) ==
    /\ pc[r] = "check"
    /\ g \in DOMAIN chk[r]
    /\ chk[r][g] = "sleep"
    /\ rem[r][g] = 0
    /\ LET grp == docGroupsMap[r][g]
       IN  IF CacheHas(grp.FileID)
           THEN /\ chk' = [chk EXCEPT ![r][g] = "done_waitcache"]
                /\ docGroupsMap' = SetHas(r, g, CacheGet(grp.FileID))
           ELSE /\ chk' = [chk EXCEPT ![r][g] = "default"]
                /\ UNCHANGED docGroupsMap
    /\ UNCHANGED <<inputs, purevars, srvvars, pc, qResults, qAnswer, llmCalls, prompt, usedIndices, unit,
                   resultChan, chanClosed, searchResults, rem, waited, response>>

\* the check has not finished: group.HasPublicForm = false
ChkDefault(r, g) ==
    /\ pc[r] = "check"
    /\ g \in DOMAIN chk[r]
    /\ chk[r][g] = "default"
    /\ chk' = [chk EXCEPT ![r][g] = "done_timeout"]
    /\ docGroupsMap' = SetHas(r, g, DefaultVerdict)
    /\ UNCHANGED <<inputs, purevars, srvvars, pc, qResults, qAnswer, llmCalls, prompt, usedIndices, unit,
                   resultChan, chanClosed, searchResults, rem, waited, response>>

\* const maxDocGroups = 50, const maxChunksPerGroup = 20
maxDocGroups == 50
maxChunksPerGroup == 20

\* the three bytes of "..."
EllipsisBytes == 3

\* content[:maxChunkContentLength] + "..." when len(content) > maxChunkContentLength;
\* content names the passage the text comes from, bytes is the text's length
TruncateChunk(c) ==
    IF c.bytes > maxChunkContentLength
    THEN [c EXCEPT !.bytes = maxChunkContentLength + EllipsisBytes]
    ELSE c

\* the groups the response keeps: docGroups[:maxDocGroups], in the order the
\* loop over the map docGroupsMap produced (any order)
LimitedKeys(groups) ==
    IF Cardinality(DOMAIN groups) > maxDocGroups
    THEN {K \in SUBSET (DOMAIN groups) : Cardinality(K) = maxDocGroups}
    ELSE {DOMAIN groups}

\* one kept group: at most maxChunksPerGroup chunks, each truncated
LimitGroup(g) ==
    LET kept == FirstN(g.Chunks, maxChunksPerGroup)
    IN  [g EXCEPT !.Chunks = [j \in 1..Len(kept) |-> TruncateChunk(kept[j])]]

\* every check goroutine has finished: the groups are copied into the
\* response and limited; a chunk is the same map in its group and in the flat
\* list, so a chunk truncated in its group is truncated in the flat list too
Assemble(r) ==
    /\ pc[r] = "check"
    /\ \A g \in DOMAIN chk[r] : ChkDone(chk[r][g])
    /\ \E K \in LimitedKeys(docGroupsMap[r]) :
        LET limited == [g \in K |-> LimitGroup(docGroupsMap[r][g])]
            keptIdx == UNION {{limited[g].Chunks[j].index : j \in 1..Len(limited[g].Chunks)} :
                                 g \in K}
        IN  response' = [response EXCEPT ![r] =
                [sent |-> TRUE, answer |-> qAnswer[r],
                 results |-> [j \in 1..Len(searchResults[r]) |->
                                 IF searchResults[r][j].index \in keptIdx
                                 THEN TruncateChunk(searchResults[r][j])
                                 ELSE searchResults[r][j]],
                 docGroups |-> limited]]
    /\ pc' = [pc EXCEPT ![r] = "done"]
    /\ UNCHANGED <<inputs, purevars, srvvars, qResults, qAnswer, llmCalls, prompt, usedIndices,
                   unit, resultChan, chanClosed, searchResults, docGroupsMap, chk, rem, waited>>

\* a request has a step it takes without waiting for a timer
Urgent(r) ==
    \/ pc[r] = "enrich"
    \/ /\ pc[r] = "check"
       /\ \/ \A g \in DOMAIN chk[r] : ChkDone(chk[r][g])
          \/ \E g \in DOMAIN chk[r] :
                \/ chk[r][g] = "start" /\ MayStart(r, g)
                \/ chk[r][g] \in {"submit", "default"}
                \/ chk[r][g] = "sleep" /\ rem[r][g] = 0

\* time passes by one tick: only the sleeping check goroutines are waiting
Tick ==
    /\ \E r \in Requests : \E g \in DOMAIN chk[r] : chk[r][g] = "sleep"
    /\ \A r \in Requests : ~Urgent(r)
    /\ rem' = [r \in Requests |-> [g \in DOMAIN rem[r] |->
                 IF chk[r][g] = "sleep" THEN rem[r][g] - 1 ELSE rem[r][g]]]
    /\ waited' = [r \in Requests |-> IF pc[r] = "check" THEN waited[r] + 1 ELSE waited[r]]
    /\ UNCHANGED <<inputs, purevars, srvvars, pc, qResults, qAnswer, llmCalls, prompt, usedIndices, unit,
                   resultChan, chanClosed, searchResults, docGroupsMap, chk, response>>

\* ------------------------------------------------------------------------
\* startAsyncCheckWorkers: the worker loop
\* ------------------------------------------------------------------------
\* bug variant of Receive: the received task stays in the channel
ReceivePeek(q) == q

\* the channel after a receive: the received element has left the buffer
Receive(q) == Tail(q)

\* for group := range s.checkQueue
WDequeue(w) ==
    /\ wpc[w] = "idle"
    /\ checkQueue # <<>>
    /\ wtask' = [wtask EXCEPT ![w] = Head(checkQueue)]
    /\ checkQueue' = Receive(checkQueue)
    /\ processed' = processed \cup {Head(checkQueue)}
    /\ wpc' = [wpc EXCEPT ![w] = "check"]
    /\ UNCHANGED <<inputs, purevars, reqvars, publicFormCache, files, filesWrite, wverdict, wload, reads, firstVerdict,
                   dropped, recovered>>

\* s.checkPublicFormAsync(group): a file that is not in s.files gives false;
\* otherwise it reads the end of the stored file (the read may fail or run into
\* its deadline, leaving no content) and writes the group's HasPublicForm
WClassify(w) ==
    /\ wpc[w] = "check"
    /\ LET r == wtask[w][1]
           g == wtask[w][2]
           grp == docGroupsMap[r][g]
       IN  IF ~Eligible(grp.FileType) \/ grp.FileID = <<>> \/ grp.FileID \notin files
           THEN /\ docGroupsMap' = SetHas(r, g, FALSE)
                /\ wverdict' = [wverdict EXCEPT ![w] = FALSE]
                /\ wload' = [wload EXCEPT ![w] =
                        IF Eligible(grp.FileType) /\ grp.FileID # <<>> THEN "unknown" ELSE "none"]
                /\ UNCHANGED reads
           ELSE \E ok \in BOOLEAN :
                LET content == IF ok THEN FileTail(grp.FileID) ELSE <<>>
                    hasPublicForm == checkPublicFormInContent(content)
                IN  /\ docGroupsMap' = SetHas(r, g, hasPublicForm)
                    /\ wverdict' = [wverdict EXCEPT ![w] = hasPublicForm]
                    /\ wload' = [wload EXCEPT ![w] = IF ok THEN "read" ELSE "failed"]
                    /\ reads' = [reads EXCEPT ![grp.FileID] = @ + 1]
    /\ wpc' = [wpc EXCEPT ![w] = "store"]
    /\ UNCHANGED <<inputs, purevars, checkQueue, publicFormCache, files, filesWrite, wtask, firstVerdict, dropped,
                   processed, recovered, pc, qResults, qAnswer, llmCalls, prompt, usedIndices, unit, resultChan,
                   chanClosed, searchResults, chk, rem, waited, response>>

\* s.publicFormCache.Store(group.FileID, group.HasPublicForm)
WStore(w) ==
    /\ wpc[w] = "store"
    /\ LET r == wtask[w][1]
           g == wtask[w][2]
           grp == docGroupsMap[r][g]
       IN  IF grp.FileID # <<>>
           THEN /\ publicFormCache' = CacheStore(publicFormCache, grp.FileID, grp.HasPublicForm)
                /\ firstVerdict' = IF \E e \in firstVerdict : e[1] = grp.FileID
                                   THEN firstVerdict
                                   ELSE firstVerdict \cup {<<grp.FileID, grp.HasPublicForm>>}
           ELSE UNCHANGED <<publicFormCache, firstVerdict>>
    /\ wpc' = [wpc EXCEPT ![w] = "idle"]
    /\ wload' = [wload EXCEPT ![w] = "none"]
    /\ UNCHANGED <<inputs, purevars, reqvars, checkQueue, files, filesWrite, wtask, wverdict, reads, dropped,
                   processed, recovered>>

\* ------------------------------------------------------------------------
\* Specifications of the handler
\* ------------------------------------------------------------------------
HandlerStep ==
    \/ \E r \in Requests : Query(r)
    \/ \E r \in Requests : \E i \in DOMAIN unit[r] : Enrich(r, i)
    \/ \E r \in Requests : CloseResultChan(r)
    \/ \E r \in Requests : Collect(r)
    \/ \E r \in Requests : CollectEnd(r)
    \/ \E r \in Requests : \E g \in DOMAIN chk[r] : ChkStart(r, g)
    \/ \E r \in Requests : \E g \in DOMAIN chk[r] : ChkSubmit(r, g)
    \/ \E r \in Requests : \E g \in DOMAIN chk[r] : ChkWake(r, g)
    \/ \E r \in Requests : \E g \in DOMAIN chk[r] : ChkDefault(r, g)
    \/ \E r \in Requests : Assemble(r)
    \/ Tick

WorkerStep ==
    \/ \E w \in Workers : WDequeue(w)
    \/ \E w \in Workers : WClassify(w)
    \/ \E w \in Workers : WStore(w)

Next == HandlerStep \/ WorkerStep

\* attribution: one query, any short passage list and answer
InitAttr == XQuiet /\ HStart([r \in Requests |-> IF r = "r1" THEN "attr" ELSE "none"])

SpecAttr == InitAttr /\ [][Next]_vars

\* classification: two queries, concurrent or one after the other
Init == XQuiet /\ HStart([r \in Requests |-> IF r = "r1" THEN "class" ELSE "again"])

Spec == Init /\ [][Next]_vars

\* ------------------------------------------------------------------------
\* Panics: a panic inside an enrichment goroutine or inside a worker's task
\* ------------------------------------------------------------------------
\* an enrichment goroutine panics before its send: the deferred recover logs
\* it and wg.Done still runs
EnrichPanic(r, i) ==
    /\ pc[r] = "enrich"
    /\ i \in DOMAIN unit[r]
    /\ unit[r][i] = "run"
    /\ unit' = [unit EXCEPT ![r][i] = "panicked"]
    /\ UNCHANGED <<inputs, purevars, srvvars, pc, qResults, qAnswer, llmCalls, prompt, usedIndices,
                   resultChan, chanClosed, searchResults, docGroupsMap, chk, rem, waited,
                   response>>

\* bug variant of AfterPanic: the panic ends the worker goroutine
AfterPanicDead(w) == "dead"

\* the recover is deferred inside the func() of one loop iteration: the
\* worker's for-range loop goes on to the next task
AfterPanic(w) == "idle"

\* checkPublicFormAsync panics before it has written the group: nothing is
\* stored in the cache for this task
WPanic(w) ==
    /\ wpc[w] = "check"
    /\ wpc' = [wpc EXCEPT ![w] = AfterPanic(w)]
    /\ recovered' = recovered \cup {w}
    /\ wload' = [wload EXCEPT ![w] = "none"]
    /\ UNCHANGED <<inputs, purevars, reqvars, checkQueue, publicFormCache, files, filesWrite, wtask, wverdict,
                   reads, firstVerdict, dropped, processed>>

RequestStep(r) ==
    \/ Query(r)
    \/ \E i \in DOMAIN unit[r] : Enrich(r, i)
    \/ CloseResultChan(r)
    \/ Collect(r)
    \/ CollectEnd(r)
    \/ \E g \in DOMAIN chk[r] : ChkStart(r, g)
    \/ \E g \in DOMAIN chk[r] : ChkSubmit(r, g)
    \/ \E g \in DOMAIN chk[r] : ChkWake(r, g)
    \/ \E g \in DOMAIN chk[r] : ChkDefault(r, g)
    \/ Assemble(r)

PanicStep ==
    \/ \E r \in Requests : \E i \in DOMAIN unit[r] : EnrichPanic(r, i)
    \/ \E w \in Workers : WPanic(w)

NextPanic == HandlerStep \/ WorkerStep \/ PanicStep

\* one query over two stored documents, with panics
InitPanic == XQuiet /\ HStart([r \in Requests |-> IF r = "r1" THEN "panic" ELSE "none"])

\* the Go scheduler runs every runnable goroutine and fires every due timer
Fairness ==
    /\ \A r \in Requests : WF_vars(RequestStep(r))
    /\ WF_vars(Tick)
    /\ \A w \in Workers : WF_vars(WDequeue(w) \/ WClassify(w) \/ WStore(w))

SpecPanic == InitPanic /\ [][NextPanic]_vars /\ Fairness

\* positions of the list sent to the generator whose marker is in the answer
Cited(r) ==
    {i \in 1..Min(Len(qResults[r]), 10) : Contains(qAnswer[r], getCircleNumber(i))}

\* loop indices of the request's enrichment goroutines that panicked
PanickedUnits(r) == {i \in DOMAIN unit[r] : unit[r][i] = "panicked"}

\* the state part of C5
PanicContained ==
    /\ Cardinality({w \in Workers : wpc[w] \in {"idle", "check", "store"}}) = checkWorkers
    /\ \A r \in Requests :
          response[r].sent =>
              {response[r].results[j].index : j \in 1..Len(response[r].results)}
                  = Cited(r) \ {i + 1 : i \in PanickedUnits(r)}

\* C5: a panic in a worker's task is contained to that task: all three
\* workers stay alive and go on taking tasks, and the submitting handler
\* still returns its response; a panic in one enrichment unit removes only
\* that unit's passage from the response.
C5_PanicContained ==
    /\ []PanicContained
    /\ \A r \in Requests : (pc[r] = "enrich") ~> response[r].sent

C5_Witness ==
    /\ response["r1"].sent
    /\ Cardinality(PanickedUnits("r1")) = 1
    /\ Len(response["r1"].results) = 2
    /\ \E w \in recovered : wpc[w] = "store"

\* ------------------------------------------------------------------------
\* Claims about the check queue, the workers and the cache (Spec)
\* ------------------------------------------------------------------------
\* C1: once a fileID has a cached verdict, later queries report that same
\* verdict and the stored file is not read again: over any interleaving of
\* queries a file is read at most once and its cached verdict never changes.
C1_SingleReadStableVerdict ==
    \A f \in FileIDs :
        /\ reads[f] <= 1
        /\ \A e \in publicFormCache : e[1] = f => e \in firstVerdict

\* C2: an eligible document group whose check produced no verdict before the
\* response was built (queue full, or the wait ran out) is reported as
\* restricted (HasPublicForm = true).
C2_UnknownIsRestricted ==
    \A r \in Requests :
        response[r].sent =>
            \A g \in DOMAIN response[r].docGroups :
                chk[r][g] \in {"done_full", "done_timeout"} =>
                    response[r].docGroups[g].HasPublicForm = TRUE

\* C3: a query waits for check results for at most one ceiling (SleepTicks),
\* however many of its document groups are pending.
C3_WaitBoundedByOneCeiling ==
    \A r \in Requests : waited[r] <= SleepTicks

C3_Witness ==
    /\ response["r1"].sent
    /\ Cardinality({g \in DOMAIN chk["r1"] : chk["r1"][g] = "done_timeout"}) >= 2
    /\ waited["r1"] = SleepTicks

\* C4: the verdict a worker computed for a task it took from the queue is the
\* value it stores in the cache under the task's fileID.
C4_StoredVerdictIsTaskVerdict ==
    [][\A w \in Workers :
          (wpc[w] = "store" /\ wpc'[w] = "idle") =>
              <<docGroupsMap[wtask[w][1]][wtask[w][2]].FileID, wverdict[w]>>
                  \in publicFormCache']_vars

\* C6: the queue never holds more than its capacity; a submission that finds
\* it full ends at once, its task is never taken by a worker, and the group
\* keeps the default value in this request's response.
C6_NonBlockingSubmit ==
    /\ Len(checkQueue) <= QueueCap
    /\ \A t \in dropped :
        /\ t \notin processed
        /\ \A i \in 1..Len(checkQueue) : checkQueue[i] # t
        /\ chk[t[1]][t[2]] = "done_full"
        /\ response[t[1]].sent =>
              response[t[1]].docGroups[t[2]].HasPublicForm = DefaultVerdict

C6_Witness ==
    /\ Len(checkQueue) = QueueCap
    /\ \E t \in dropped : response[t[1]].sent /\ pc[t[1]] = "done"

\* ------------------------------------------------------------------------
\* Claims about attribution (SpecAttr)
\* ------------------------------------------------------------------------
\* all chunks of the response's document groups, as <<groupKey, position>>
ChunkSlots(r) ==
    UNION {{<<g, j>> : j \in 1..Len(response[r].docGroups[g].Chunks)} :
              g \in DOMAIN response[r].docGroups}

ChunkAt(r, slot) == response[r].docGroups[slot[1]].Chunks[slot[2]]

\* C7: the passages in the response (flat list and chunks of all groups) are
\* exactly the passages at the positions 1..min(n, 10) whose marker occurs in
\* the answer, each exactly once, in every interleaving of the enrichment units.
C7_ExactlyCitedPassages ==
    \A r \in Requests :
        response[r].sent =>
            /\ Len(response[r].results) = Cardinality(Cited(r))
            /\ \A i \in Cited(r) :
                  \E j \in 1..Len(response[r].results) :
                      /\ response[r].results[j].index = i
                      /\ response[r].results[j].content = qResults[r][i]
            /\ Cardinality(ChunkSlots(r)) = Cardinality(Cited(r))
            /\ \A i \in Cited(r) :
                  \E slot \in ChunkSlots(r) :
                      /\ ChunkAt(r, slot).index = i
                      /\ ChunkAt(r, slot).content = qResults[r][i]

C7_Witness ==
    /\ response["r1"].sent
    /\ Len(qResults["r1"]) = 3
    /\ Cited("r1") = {1, 3}
    /\ Len(response["r1"].results) = 2
    /\ Cardinality(ChunkSlots("r1")) = 2

\* C8: the index recorded for a cited passage is the 1-based position the
\* passage had in the list the prompt numbered.
C8_IndexIsPromptPosition ==
    \A r \in Requests :
        response[r].sent =>
            /\ \A j \in 1..Len(response[r].results) :
                  LET c == response[r].results[j]
                  IN  /\ c.index \in DOMAIN prompt[r]
                      /\ prompt[r][c.index].passage = c.content
                      /\ prompt[r][c.index].marker = getCircleNumber(c.index)
            /\ \A slot \in ChunkSlots(r) :
                  LET c == ChunkAt(r, slot)
                  IN  /\ c.index \in DOMAIN prompt[r]
                      /\ prompt[r][c.index].passage = c.content
                      /\ Contains(qAnswer[r], prompt[r][c.index].marker)

C8_Witness ==
    /\ response["r1"].sent
    /\ \E j \in 1..Len(response["r1"].results) :
          LET c == response["r1"].results[j]
          IN  c.index = 2 /\ c.content = 4 /\ qResults["r1"] = <<3, 4, 1>>

\* ------------------------------------------------------------------------
\* Extractor specification: an answer text, its extraction, one marker added
\* ------------------------------------------------------------------------
XInit ==
    /\ xAnswer \in SeqsUpTo(AnswerChars, MaxLen)
    /\ xStage = "text"
    /\ xUsed = {}
    /\ xPrevUsed = {}
    /\ xAdded = 0
    /\ KQuiet
    /\ GQuiet
    /\ AQuiet
    /\ HStart([r \in Requests |-> "none"])

XExtract ==
    /\ xStage = "text"
    /\ xUsed' = extractUsedAnnotations(xAnswer)
    /\ xStage' = "extracted"
    /\ UNCHANGED <<xAnswer, xPrevUsed, xAdded, kvars, gvars, avars, hvars>>

\* the generator's answer gains the marker of passage position k
XAddMarker ==
    /\ xStage = "extracted"
    /\ xAdded = 0
    /\ \E k \in 1..MaxIndex, pos \in 0..Len(xAnswer) :
        /\ xAnswer' = InsertAt(xAnswer, pos, getCircleNumber(k))
        /\ xAdded' = k
    /\ xPrevUsed' = xUsed
    /\ xUsed' = {}
    /\ xStage' = "text"
    /\ UNCHANGED <<kvars, gvars, avars, hvars>>

XNext == XExtract \/ XAddMarker

SpecExtract == XInit /\ [][XNext]_vars

\* C9: adding marker k (1..10) to an answer and nothing else adds exactly
\* index k to the used set (or nothing when k was already there), whatever
\* other markers the answer holds.
C9_Monotonic ==
    (xAdded \in 1..10 /\ xStage = "extracted") => xUsed = xPrevUsed \cup {xAdded}

C9_Witness ==
    /\ xAdded \in 1..10
    /\ xStage = "extracted"
    /\ xPrevUsed # {}
    /\ xAdded \notin xPrevUsed
    /\ xUsed = xPrevUsed \cup {xAdded}

\* C10: the prompt marker of position i comes back from the extractor as index
\* i exactly when 1 <= i <= 10; the fallback marker "(i)" of a position beyond
\* the 10th marks no index.
C10_RoundTrip ==
    (xAdded # 0 /\ xStage = "extracted") =>
        /\ xAdded <= 10 => (xAdded \in xUsed /\ xUsed \ xPrevUsed \subseteq {xAdded})
        /\ xAdded > 10 => (xUsed = xPrevUsed /\ xAdded \notin xUsed)

C10_Witness ==
    /\ xAdded > 10
    /\ xStage = "extracted"
    /\ Contains(xAnswer, getCircleNumber(xAdded))
    /\ xUsed = xPrevUsed

\* ------------------------------------------------------------------------
\* Ranking specification: a question, a candidate list and topK; the
\* candidates are re-ranked, filtered, and the filter is applied once more
\* ------------------------------------------------------------------------
\* longest candidate list drawn passage by passage
MaxCands == 4

\* questions: with and without a stop word, a space, an upper-case letter,
\* punctuation; one character only; spaces only
QuestionPool ==
    {<<"pei", "a">>, <<"pei", "de", "a">>, <<"a", "de", "a">>, <<"pei", " ", "a">>,
     <<"A", "pei">>, <<"pei", "a", "de">>, <<"de">>, <<"x">>, <<"pei">>, <<" ", " ">>, <<"a", "a", "?">>}

\* passages of the short candidate lists
RankDocs == {1, 2, 3, 5}

\* topK as handleQuery passes it: never 0
TopKs == {-1} \cup (1..MaxCands)

\* over-fetched candidate lists: passages a and b among filler passages
LongLists(n, As, Bs) ==
    {[i \in 1..n |-> IF i = pa THEN a ELSE IF i = pb THEN b ELSE 3] :
        pa \in 1..n, pb \in 1..n, a \in As, b \in Bs}

LongQuestions == {<<"pei", "a">>, <<"pei", "de", "a">>}

KInit ==
    /\ \/ /\ kQuestion \in QuestionPool
          /\ kAll \in SeqsUpTo(RankDocs, MaxCands)
          /\ kTopK \in TopKs
       \/ /\ kQuestion \in LongQuestions
          /\ kAll \in LongLists(minSearchTopK, {1, 5}, {1, 3})
                       \cup LongLists(maxSearchTopK, {5}, {3})
          /\ kTopK \in {1, defaultTopK}
    /\ kStage = "input"
    /\ kRanked = NoRanked
    /\ kFiltered = <<>>
    /\ kTwice = <<>>
    /\ xAnswer = <<>> /\ xStage = "text" /\ xUsed = {} /\ xPrevUsed = {} /\ xAdded = 0
    /\ GQuiet
    /\ AQuiet
    /\ HStart([r \in Requests |-> "none"])

\* results := r.reRankResults(question, allResults, r.topK)
KRerank ==
    /\ kStage = "input"
    /\ kRanked' = reRankResults(kQuestion, kAll, kTopK)
    /\ kStage' = IF kRanked'.panic THEN "panicked" ELSE "ranked"
    /\ UNCHANGED <<kQuestion, kAll, kTopK, kFiltered, kTwice, xvars, gvars, avars, hvars>>

\* results = r.filterRelevantResults(question, results)
KFilter ==
    /\ kStage = "ranked"
    /\ kFiltered' = filterRelevantResults(kQuestion, kRanked.docs)
    /\ kStage' = "filtered"
    /\ UNCHANGED <<kQuestion, kAll, kTopK, kRanked, kTwice, xvars, gvars, avars, hvars>>

\* the filter applied to its own output
KFilterAgain ==
    /\ kStage = "filtered"
    /\ kTwice' = filterRelevantResults(kQuestion, kFiltered)
    /\ kStage' = "refiltered"
    /\ UNCHANGED <<kQuestion, kAll, kTopK, kRanked, kFiltered, xvars, gvars, avars, hvars>>

KNext == KRerank \/ KFilter \/ KFilterAgain

SpecRank == KInit /\ [][KNext]_vars

KRan == kStage \in {"panicked", "ranked", "filtered", "refiltered"}

\* C11: a candidate list no longer than topK comes back from reRankResults
\* unchanged (same passages, same order), without scoring.
C11_NoOpWhenFewCandidates ==
    (KRan /\ Len(kAll) <= kTopK) =>
        /\ kStage # "panicked"
        /\ ~kRanked.scored
        /\ kRanked.docs = kAll

C11_Witness ==
    /\ kStage = "ranked"
    /\ Len(kAll) = 2
    /\ kTopK = 2
    /\ LexScore(kQuestion, PageContent(kAll[1])) = 0
    /\ LexScore(kQuestion, PageContent(kAll[2])) > 0
    /\ kRanked.docs = kAll

\* passage d contains every / no keyword extracted from the question
\* (substring of the lower-cased passage)
HoldsEveryKeyword(question, d) ==
    LET ks == keywords(question)
        lowerContent == ToLower(PageContent(d))
    IN  \A n \in 1..Len(ks) : Contains(lowerContent, ks[n])

HoldsNoKeyword(question, d) ==
    LET ks == keywords(question)
        lowerContent == ToLower(PageContent(d))
    IN  \A n \in 1..Len(ks) : ~Contains(lowerContent, ks[n])

\* C12: with at most 50 candidates, a candidate that contains every extracted
\* keyword has a strictly greater final score than a candidate that contains
\* none, and stands before it after the sort, whatever their original ranks.
C12_AllKeywordsBeatNone ==
    (kStage = "ranked" /\ kRanked.scored /\ Len(kAll) <= maxSearchTopK) =>
        LET every == {d \in Docs : HoldsEveryKeyword(kQuestion, d)}
            none == {d \in Docs : HoldsNoKeyword(kQuestion, d)}
            xs == {x \in 1..Len(kRanked.sorted) : kRanked.sorted[x].doc \in every}
            ys == {y \in 1..Len(kRanked.sorted) : kRanked.sorted[y].doc \in none}
        IN  \A x \in xs, y \in ys :
                /\ kRanked.sorted[x].score > kRanked.sorted[y].score
                /\ x < y

\* the m-th smallest element of a set of numbers
NthOf(S, m) == CHOOSE n \in S : Cardinality({j \in S : j <= n}) = m

\* C13: for every non-zero topK and every non-empty candidate list longer
\* than topK, reRankResults returns a non-empty list of at most topK passages:
\* the first topK passages of the sorted list with lexical score > 0, or the
\* first topK candidates when no passage has a lexical score > 0.
C13_AtMostKNonEmpty ==
    (KRan /\ kAll # <<>> /\ Len(kAll) > kTopK) =>
        /\ kStage # "panicked"
        /\ kRanked.docs # <<>>
        /\ Len(kRanked.docs) <= kTopK
        /\ LET pos == {n \in 1..Len(kRanked.sorted) :
                          kRanked.sorted[n].score + kRanked.sorted[n].index > 0}
           IN  IF pos = {}
               THEN kRanked.docs = FirstN(kAll, kTopK)
               ELSE /\ Len(kRanked.docs) = Min(kTopK, Cardinality(pos))
                    /\ \A m \in 1..Len(kRanked.docs) :
                          kRanked.docs[m] = kRanked.sorted[NthOf(pos, m)].doc

\* C14: among the passages the scoring path returns, a passage with a higher
\* lexical score never stands after one with a lower lexical score, and
\* passages with equal lexical score stand in original-rank order.
C14_RankIsOnlyTieBreak ==
    (KRan /\ kRanked.scored /\ ~kRanked.panic) =>
        \A x, y \in 1..Len(kRanked.picks) :
            x < y =>
                LET lx == kRanked.picks[x].score + kRanked.picks[x].index
                    ly == kRanked.picks[y].score + kRanked.picks[y].index
                IN  /\ lx >= ly
                    /\ lx = ly => kRanked.picks[x].index < kRanked.picks[y].index

\* C15: filterRelevantResults applied to its own output changes nothing.
C15_FilterIdempotent ==
    kStage = "refiltered" => kTwice = kFiltered

C15_Witness ==
    /\ kStage = "refiltered"
    /\ coreKeywords(kQuestion) # <<>>
    /\ Len(kRanked.docs) > maxKeep
    /\ \A n \in 1..Len(kRanked.docs) : ~HasRelevantKeyword(kQuestion, kRanked.docs[n])
    /\ Len(kFiltered) = maxKeep
    /\ kTwice = kFiltered

\* passage d holds core keyword k, directly or with its spaces taken out
HoldsCoreKeyword(d, k) ==
    \/ Contains(ToLower(PageContent(d)), k)
    \/ Contains(StripSpaces(ToLower(PageContent(d))), k)

\* C16: when a core keyword is extracted, the filter returns, in input order,
\* exactly the passages that hold at least one core keyword; when none does,
\* the first min(3, n) input passages; its output is empty only if its input is.
C16_FilterKeepsMatching ==
    kStage \in {"filtered", "refiltered"} =>
        LET in == kRanked.docs
            cks == coreKeywords(kQuestion)
            keep == {n \in 1..Len(in) : \E m \in 1..Len(cks) : HoldsCoreKeyword(in[n], cks[m])}
        IN  /\ kFiltered = <<>> => in = <<>>
            /\ cks # <<>> =>
                  IF keep = {}
                  THEN kFiltered = FirstN(in, 3)
                  ELSE /\ Len(kFiltered) = Cardinality(keep)
                       /\ \A m \in 1..Len(kFiltered) : kFiltered[m] = in[NthOf(keep, m)]

C16_Witness ==
    /\ kStage = "filtered"
    /\ Len(kRanked.docs) = 3
    /\ Len(kFiltered) = 2
    /\ kFiltered = <<kRanked.docs[1], kRanked.docs[3]>>
    /\ ~HasRelevantKeyword(kQuestion, kRanked.docs[2])

\* ------------------------------------------------------------------------
\* Pipeline specification: one query through QueryWithResults and handleQuery
\* ------------------------------------------------------------------------
InitPipe == XQuiet /\ HStart([r \in Requests |-> IF r = "r1" THEN "pipe" ELSE "none"])

SpecPipe == InitPipe /\ [][Next]_vars

\* the tasks of request r: submitted, dropped or taken by a worker
TasksOf(r) ==
    {t \in dropped \cup processed : t[1] = r}
    \cup {checkQueue[i] : i \in {j \in 1..Len(checkQueue) : checkQueue[j][1] = r}}

\* C17: when no passage survives the filter, QueryWithResults returns the
\* fixed apology and an empty passage list without calling the generator; the
\* response then has no document group and no classification task is enqueued.
C17_ApologyWhenNothingSurvives ==
    \A r \in Requests :
        (pc[r] # "idle" /\ qResults[r] = <<>>) =>
            /\ qAnswer[r] = Apology
            /\ llmCalls[r] = 0
            /\ DOMAIN unit[r] = {}
            /\ TasksOf(r) = {}
            /\ response[r].sent =>
                  /\ response[r].answer = Apology
                  /\ response[r].results = <<>>
                  /\ DOMAIN response[r].docGroups = {}

C17_Witness ==
    /\ response["r1"].sent
    /\ qResults["r1"] = <<>>
    /\ response["r1"].answer = Apology
    /\ checkQueue = <<>>

\* ------------------------------------------------------------------------
\* Generation specification: the Generate call of QueryWithResults under the
\* handler's context.  Time is counted in seconds; a statement takes no time.
\* ------------------------------------------------------------------------
\* ctx, cancel := context.WithTimeout(r.Context(), 50*time.Second)
handlerTimeout == 50
\* llmCtx, cancel := context.WithTimeout(ctx, 120*time.Second)
llmTimeout == 120

\* llmCtx.Err(): the parent's error, or the own deadline's
LlmCtxErr ==
    IF gLlmStart < 0 THEN "nil"
    ELSE IF gParent = "canceled" THEN "Canceled"
    ELSE IF gParent = "expired" THEN "DeadlineExceeded"
    ELSE IF gClock >= gLlmStart + llmTimeout THEN "DeadlineExceeded"
    ELSE "nil"

GInit ==
    /\ gClock = 0
    /\ gParent = "live"
    /\ gLlmStart = -1
    /\ gCall = "before"
    /\ gCause = "none"
    /\ gCalls = 0
    /\ gReport = "none"
    /\ xAnswer = <<>> /\ xStage = "text" /\ xUsed = {} /\ xPrevUsed = {} /\ xAdded = 0
    /\ KQuiet
    /\ AQuiet
    /\ HStart([r \in Requests |-> "none"])

\* the handler's context is done or due, or a finished call waits for its
\* error to be examined
GUrgent ==
    \/ gParent # "live"
    \/ gClock >= handlerTimeout
    \/ gCall = "running" /\ LlmCtxErr # "nil"
    \/ gCall \in {"ok", "err"}

\* one second passes while the query is searching or generating
GTick ==
    /\ gReport = "none"
    /\ ~GUrgent
    /\ gClock' = gClock + 1
    /\ UNCHANGED <<gParent, gLlmStart, gCall, gCause, gCalls, gReport, xvars, kvars, avars, hvars>>

\* the handler's 50 s deadline passes
GParentExpire ==
    /\ gParent = "live"
    /\ gClock >= handlerTimeout
    /\ gReport = "none"
    /\ gParent' = "expired"
    /\ UNCHANGED <<gClock, gLlmStart, gCall, gCause, gCalls, gReport, xvars, kvars, avars, hvars>>

\* the client goes away: r.Context() is canceled
GClientCancel ==
    /\ gParent = "live"
    /\ gReport = "none"
    /\ gParent' = "canceled"
    /\ UNCHANGED <<gClock, gLlmStart, gCall, gCause, gCalls, gReport, xvars, kvars, avars, hvars>>

\* llmCtx is created and r.llm.Generate(llmCtx, prompt) is called
GStart ==
    /\ gCall = "before"
    /\ gLlmStart' = gClock
    /\ gCall' = "running"
    /\ gCalls' = gCalls + 1
    /\ UNCHANGED <<gClock, gParent, gCause, gReport, xvars, kvars, avars, hvars>>

\* the provider answers
GSucceed ==
    /\ gCall = "running"
    /\ LlmCtxErr = "nil"
    /\ gCall' = "ok"
    /\ UNCHANGED <<gClock, gParent, gLlmStart, gCause, gCalls, gReport, xvars, kvars, avars, hvars>>

\* the provider returns an error before any deadline
GProviderError ==
    /\ gCall = "running"
    /\ LlmCtxErr = "nil"
    /\ gCall' = "err"
    /\ gCause' = "provider"
    /\ UNCHANGED <<gClock, gParent, gLlmStart, gCalls, gReport, xvars, kvars, avars, hvars>>

\* the HTTP call ends because llmCtx is done
GCtxDone ==
    /\ gCall = "running"
    /\ LlmCtxErr # "nil"
    /\ gCall' = "err"
    /\ gCause' = IF gParent = "canceled" THEN "parent_canceled"
                 ELSE IF gParent = "expired" THEN "parent_deadline"
                 ELSE "own_deadline"
    /\ UNCHANGED <<gClock, gParent, gLlmStart, gCalls, gReport, xvars, kvars, avars, hvars>>

\* if err != nil { if llmCtx.Err() == context.DeadlineExceeded { timeout } failure }
ReportOf(err, ctxErr) ==
    IF err THEN (IF ctxErr = "DeadlineExceeded" THEN "timeout" ELSE "failure")
    ELSE "answer"

\* QueryWithResults examines the error and returns
GReturn ==
    /\ gCall \in {"ok", "err"}
    /\ gReport = "none"
    /\ gReport' = ReportOf(gCall = "err", LlmCtxErr)
    /\ UNCHANGED <<gClock, gParent, gLlmStart, gCall, gCause, gCalls, xvars, kvars, avars, hvars>>

GNext ==
    \/ GTick
    \/ GParentExpire
    \/ GClientCancel
    \/ GStart
    \/ GSucceed
    \/ GProviderError
    \/ GCtxDone
    \/ GReturn

SpecGen == GInit /\ [][GNext]_vars

\* C18: the generation-timeout error is returned exactly when the call failed
\* because the generator's own deadline (120 s) expired; a provider error
\* before any deadline and a failure caused by the end of the parent request
\* are returned as a generation failure; Generate is called at most once.
C18_TimeoutOnlyOwnDeadline ==
    /\ gCalls <= 1
    /\ gReport # "none" =>
          /\ gReport = "timeout" <=> gCause = "own_deadline"
          /\ gCause \in {"provider", "parent_canceled", "parent_deadline"} =>
                gReport = "failure"

\* C19: a response has at most 50 document groups, each group at most 20
\* chunks, and each chunk's text at most 2000 characters.
C19_ResponseCaps ==
    \A r \in Requests :
        response[r].sent =>
            /\ Cardinality(DOMAIN response[r].docGroups) <= maxDocGroups
            /\ \A g \in DOMAIN response[r].docGroups :
                  /\ Len(response[r].docGroups[g].Chunks) <= maxChunksPerGroup
                  /\ \A j \in 1..Len(response[r].docGroups[g].Chunks) :
                        response[r].docGroups[g].Chunks[j].bytes <= maxChunkContentLength

\* ------------------------------------------------------------------------
\* File deletion: handleFileDelete next to the queries and the workers
\* ------------------------------------------------------------------------
\* the stored file is removed from the disk and from s.files; the cache is
\* not touched
handleFileDelete(fid) ==
    /\ fid \in files
    /\ files' = files \ {fid}
    /\ UNCHANGED <<inputs, purevars, reqvars, checkQueue, publicFormCache, filesWrite, wpc, wtask,
                   wverdict, wload, reads, firstVerdict, dropped, processed, recovered>>

AdminStep == \E fid \in FileIDs : handleFileDelete(fid)

NextFiles == HandlerStep \/ WorkerStep \/ AdminStep

\* two queries citing the same stored document, and deletions of stored files
InitFiles == XQuiet /\ HStart([r \in Requests |-> "again"])

SpecFiles == InitFiles /\ [][NextFiles]_vars

\* C20: once the cache holds an entry for a fileID, no later worker write, no
\* concurrent query and no file deletion changes or removes it.
C20_CacheWriteOnce ==
    [][publicFormCache \subseteq publicFormCache']_vars

\* C21: a cache entry is created only by a successful classification: when
\* the worker could not classify the file (unknown to s.files, missing on
\* disk, read error, load deadline), its write leaves the cache without an
\* entry for that fileID, so that a later query classifies the file again.
C21_NoEntryOnFailedClassification ==
    [][\A w \in Workers :
          (wpc[w] = "store" /\ wpc'[w] = "idle" /\ wload[w] \in {"unknown", "failed"}) =>
              ~\E e \in publicFormCache' :
                  /\ e[1] = docGroupsMap[wtask[w][1]][wtask[w][2]].FileID
                  /\ e \notin publicFormCache]_vars

\* ------------------------------------------------------------------------
\* Claims about the queue and its consumers (Spec)
\* ------------------------------------------------------------------------
\* the group pointers whose send to checkQueue succeeded
Accepted ==
    UNION {{<<r, g>> : g \in {k \in DOMAIN chk[r] :
                chk[r][k] \in {"sleep", "default", "done_waitcache", "done_timeout"}}} :
              r \in Requests}

InQueue(t) == Cardinality({i \in 1..Len(checkQueue) : checkQueue[i] = t})

\* C22: every task accepted into the queue is consumed exactly once: with
\* several workers dequeuing concurrently, an accepted task is either still in
\* the queue (once) or was taken by one worker, and a worker never takes a
\* task that was taken before.
C22_ConsumedExactlyOnce ==
    /\ [](\A t \in Accepted : InQueue(t) + (IF t \in processed THEN 1 ELSE 0) = 1)
    /\ [][\A w \in Workers :
            (wpc[w] = "idle" /\ wpc'[w] = "check") =>
                /\ wtask'[w] \in Accepted
                /\ wtask'[w] \notin processed
                /\ \A v \in Workers \ {w} : wpc[v] = "idle" => wpc'[v] = "idle"]_vars

C22_Witness ==
    /\ Cardinality(processed) = 2
    /\ \E w \in Workers : \E v \in Workers \ {w} :
          wpc[w] = "check" /\ wpc[v] = "check" /\ wtask[w] # wtask[v]

\* ------------------------------------------------------------------------
\* Grouping specification: one query over passages with file_name metadata
\* ------------------------------------------------------------------------
InitMerge == XQuiet /\ HStart([r \in Requests |-> IF r = "r1" THEN "merge" ELSE "none"])

SpecMerge == InitMerge /\ [][Next]_vars

\* groupKey of the passage at position i of the request's list
GroupKeyAt(r, i) == Enrichment(i - 1, qResults[r][i]).groupKey

\* the collector loop has ended
Collected(r) == pc[r] \in {"check", "done"}

\* C23: the collector builds exactly one group per distinct groupKey (source
\* path, or title when the path is empty) among the cited passages, every
\* cited passage's chunk is in the group of its own groupKey, and a group's
\* fileType or fileID that is already non-empty is never overwritten by a
\* later-arriving passage.
C23_OneGroupPerKey ==
    /\ [](\A r \in Requests :
            Collected(r) =>
                /\ DOMAIN docGroupsMap[r] = {GroupKeyAt(r, i) : i \in Cited(r)}
                /\ \A i \in Cited(r) :
                      \E j \in 1..Len(docGroupsMap[r][GroupKeyAt(r, i)].Chunks) :
                          docGroupsMap[r][GroupKeyAt(r, i)].Chunks[j].index = i
                /\ \A g \in DOMAIN docGroupsMap[r] :
                      \A j \in 1..Len(docGroupsMap[r][g].Chunks) :
                          GroupKeyAt(r, docGroupsMap[r][g].Chunks[j].index) = g)
    /\ [][\A r \in Requests : \A g \in DOMAIN docGroupsMap[r] :
            /\ g \in DOMAIN docGroupsMap'[r]
            /\ docGroupsMap[r][g].FileType # "" =>
                  docGroupsMap'[r][g].FileType = docGroupsMap[r][g].FileType
            /\ docGroupsMap[r][g].FileID # <<>> =>
                  docGroupsMap'[r][g].FileID = docGroupsMap[r][g].FileID]_vars

\* a group whose fileID was empty when its first passage arrived and was
\* back-filled by the second passage, next to a group of another key
C23_Witness ==
    /\ Collected("r1")
    /\ \E g \in DOMAIN docGroupsMap["r1"] :
          /\ Len(docGroupsMap["r1"][g].Chunks) = 2
          /\ docGroupsMap["r1"][g].Chunks[1].content = 6
          /\ docGroupsMap["r1"][g].Chunks[2].content = 7
          /\ docGroupsMap["r1"][g].FileID = <<"f2">>
    /\ \E g \in DOMAIN docGroupsMap["r1"] :
          /\ Len(docGroupsMap["r1"][g].Chunks) = 1
          /\ docGroupsMap["r1"][g].Chunks[1].content = 4

\* ------------------------------------------------------------------------
\* Deadlines of the contexts derived from the handler's context (SpecGen).
\* The handler's context is created at second 0, so its deadline is the
\* second handlerTimeout.
\* ------------------------------------------------------------------------
\* checkCtx, checkCancel := context.WithTimeout(ctx, 10*time.Second)
checkTimeout == 10
\* collectCtx, collectCancel := context.WithTimeout(ctx, 5*time.Second)
collectTimeout == 5

\* context.WithTimeout(parent, timeout) called at second start: the deadline
\* of the child is the earlier of the parent's deadline and start + timeout
WithTimeout(parentDeadline, start, timeout) == Min(parentDeadline, start + timeout)

\* deadline of llmCtx
LlmDeadline == WithTimeout(handlerTimeout, gLlmStart, llmTimeout)

\* deadlines of checkCtx and collectCtx: the handler creates both once
\* QueryWithResults has returned the answer
CheckDeadline == WithTimeout(handlerTimeout, gClock, checkTimeout)
CollectDeadline == WithTimeout(handlerTimeout, gClock, collectTimeout)

\* C24: every sub-operation of a query (the Generate call, the per-document
\* check, the collection of the check results) runs under a deadline derived
\* from the request's deadline and strictly earlier than it; in particular
\* the deadline of the Generate call is earlier than the handler's.
C24_SubDeadlinesShorter ==
    /\ gLlmStart >= 0 =>
          LlmDeadline < handlerTimeout
    /\ gReport = "answer" =>
          /\ CheckDeadline < handlerTimeout
          /\ CollectDeadline < handlerTimeout

\* ------------------------------------------------------------------------
\* The fan-in of the enrichment goroutines (SpecPanic)
\* ------------------------------------------------------------------------
\* const maxChannelBuffer = 1000
maxChannelBuffer == 1000

\* bufferSize of resultChan: len(queryResult.Results), at most maxChannelBuffer
bufferSize(r) == Min(Len(qResults[r]), maxChannelBuffer)

RunningUnits(r) == {i \in DOMAIN unit[r] : unit[r][i] = "run"}

\* C25: the attribution fan-in always terminates: the buffer of resultChan has
\* room for the record of every unit still running, so no send blocks; the
\* channel is closed once, and only when no unit is running (a panicked unit
\* has finished); after the close no unit sends; the collector loop then ends.
C25_FanInTerminates ==
    /\ [](\A r \in Requests :
            pc[r] = "enrich" =>
                Len(resultChan[r]) + Cardinality(RunningUnits(r)) <= bufferSize(r))
    /\ [][\A r \in Requests :
            /\ (chanClosed'[r] # chanClosed[r]) =>
                  ~chanClosed[r] /\ RunningUnits(r) = {}
            /\ chanClosed[r] =>
                  /\ unit'[r] = unit[r]
                  /\ Len(resultChan'[r]) <= Len(resultChan[r])]_vars
    /\ \A r \in Requests : (pc[r] = "enrich") ~> (pc[r] = "check")

C25_Witness ==
    /\ pc["r1"] = "check"
    /\ chanClosed["r1"]
    /\ Cardinality(PanickedUnits("r1")) = 1
    /\ Len(searchResults["r1"]) = 2
    /\ resultChan["r1"] = <<>>

\* ------------------------------------------------------------------------
\* The core keywords of the filter (SpecRank)
\* ------------------------------------------------------------------------
\* a character that ends a run: a stop word, a punctuation mark or a space
Delimiter(c) == c \in filterStopWords \/ c = " "

\* the maximal runs of non-delimiter characters of q, as <<first, last>>
MaximalRuns(q) ==
    {run \in (1..Len(q)) \X (1..Len(q)) :
        /\ run[1] <= run[2]
        /\ \A i \in run[1]..run[2] : ~Delimiter(q[i])
        /\ run[1] = 1 \/ Delimiter(q[run[1] - 1])
        /\ run[2] = Len(q) \/ Delimiter(q[run[2] + 1])}

\* C26: every core keyword filterRelevantResults extracts is a maximal run of
\* question characters without stop word, punctuation or space and is at
\* least 2 characters long; a question made only of stop words and
\* punctuation yields no core keyword and every passage passes unchanged.
C26_CoreKeywordsAreLongRuns ==
    (kStage \in {"filtered", "refiltered"} /\ kRanked.docs # <<>>) =>
        LET q == ToLower(kQuestion)
            cks == coreKeywords(kQuestion)
        IN  /\ \A n \in 1..Len(cks) :
                  /\ Len(cks[n]) >= 2
                  /\ \E run \in MaximalRuns(q) : SubSeq(q, run[1], run[2]) = cks[n]
            /\ (\A i \in 1..Len(q) : Delimiter(q[i])) =>
                  cks = <<>> /\ kFiltered = kRanked.docs

\* ------------------------------------------------------------------------
\* The shared *DocGroup: accesses of the worker and of the request (Spec)
\* ------------------------------------------------------------------------
\* a worker is inside checkPublicFormAsync(group) for this group pointer: its
\* next step writes group.HasPublicForm
WorkerWrites(r, g) == \E w \in Workers : wpc[w] = "check" /\ wtask[w] = <<r, g>>

\* the request is at a statement that writes group.HasPublicForm (after the
\* Sleep) or that copies *group into the response
RequestAccesses(r, g) ==
    /\ pc[r] = "check"
    /\ g \in DOMAIN chk[r]
    /\ \/ chk[r][g] = "default"
       \/ chk[r][g] = "sleep" /\ rem[r][g] = 0
       \/ \A k \in DOMAIN chk[r] : ChkDone(chk[r][k])

\* C27: a group of a request is never accessed by a worker and by the request
\* goroutine at once: no worker writes the group's HasPublicForm while the
\* request writes its default or copies the group into the response, so that
\* from the end of the request's check of a group to the copy the group holds
\* the verdict the request read or the default it chose.
C27_NoUnsynchronisedGroupAccess ==
    /\ [](\A r \in Requests : \A g \in DOMAIN chk[r] :
            ~(WorkerWrites(r, g) /\ RequestAccesses(r, g)))
    /\ [][\A r \in Requests : \A g \in DOMAIN chk[r] :
            (pc[r] = "check" /\ ChkDone(chk[r][g])) =>
                /\ docGroupsMap'[r][g].HasPublicForm = docGroupsMap[r][g].HasPublicForm
                /\ response'[r].sent =>
                      response'[r].docGroups[g].HasPublicForm
                          = docGroupsMap[r][g].HasPublicForm]_vars

\* ------------------------------------------------------------------------
\* Registry specification: the handlers that write the map s.files, next to
\* the queries and the workers.  A map write is not atomic: the handler is
\* inside the runtime's map assignment or delete between its two steps.
\* ------------------------------------------------------------------------
\* the fileID handleUpload gives a newly uploaded file
NewFileID == <<"f3">>

\* map writes of the handlers: delete(s.files, path) of handleFileDelete,
\* s.files[fileID] = fileInfo of handleUpload
FilesOps ==
    {<<"delete", fid>> : fid \in files \cap FileIDs}
        \cup (IF NewFileID \in files THEN {} ELSE {<<"upload", NewFileID>>})

\* the process is running
Running == filesWrite # <<"fatal">>

\* a handler enters its map write
FilesWriteBegin ==
    /\ filesWrite = <<>>
    /\ \E op \in FilesOps : filesWrite' = op
    /\ UNCHANGED <<inputs, purevars, reqvars, checkQueue, publicFormCache, files, wpc, wtask,
                   wverdict, wload, reads, firstVerdict, dropped, processed, recovered>>

\* the map write completes
FilesWriteEnd ==
    /\ Running
    /\ filesWrite # <<>>
    /\ files' = IF filesWrite[1] = "delete" THEN files \ {filesWrite[2]}
                 ELSE files \cup {filesWrite[2]}
    /\ filesWrite' = <<>>
    /\ UNCHANGED <<inputs, purevars, reqvars, checkQueue, publicFormCache, wpc, wtask,
                   wverdict, wload, reads, firstVerdict, dropped, processed, recovered>>

\* a worker is at the lookup s.files[group.FileID] of checkPublicFormAsync
AtLookup(w) ==
    /\ wpc[w] = "check"
    /\ LET grp == docGroupsMap[wtask[w][1]][wtask[w][2]]
       IN  Eligible(grp.FileType) /\ grp.FileID # <<>>

\* the lookup runs while a handler is inside its map write: the runtime may
\* detect it ("fatal error: concurrent map read and map write"), which no
\* recover catches and which ends the process; when it does not detect it,
\* the lookup goes on as WClassify
WLookupFatal(w) ==
    /\ AtLookup(w)
    /\ Running
    /\ filesWrite # <<>>
    /\ filesWrite' = <<"fatal">>
    /\ UNCHANGED <<inputs, purevars, reqvars, checkQueue, publicFormCache, files, wpc, wtask,
                   wverdict, wload, reads, firstVerdict, dropped, processed, recovered>>

RegistryStep ==
    \/ FilesWriteBegin
    \/ FilesWriteEnd
    \/ \E w \in Workers : WLookupFatal(w)

NextRegistry == (Running /\ (HandlerStep \/ WorkerStep)) \/ RegistryStep

SpecRegistry == InitFiles /\ [][NextRegistry]_vars

\* C28: s.files is never read by a worker while an upload or delete handler
\* writes it, and every interleaving of a worker's lookup with those
\* handlers leaves the worker pool running.
C28_RegistryAccessExclusive ==
    /\ \A w \in Workers : ~(AtLookup(w) /\ filesWrite # <<>> /\ Running)
    /\ Running

\* ------------------------------------------------------------------------
\* Determinism of the attribution (SpecMerge)
\* ------------------------------------------------------------------------
\* the flat list as the inputs alone fix it: the records of the cited
\* positions in ascending order
ResultsOf(r) ==
    [j \in 1..Cardinality(Cited(r)) |->
        LET i == NthOf(Cited(r), j)
        IN  Enrichment(i - 1, qResults[r][i]).result]

IndicesOf(chunks) == {chunks[j].index : j \in 1..Len(chunks)}

\* C29: for a fixed answer and passage list the attribution result is the
\* same in every interleaving of the enrichment units: the set of group
\* keys, the set of chunk indices of each group and the flat list (ascending
\* by index) are those the inputs fix, whatever the order of arrival.
C29_AttributionDeterministic ==
    \A r \in Requests :
        /\ Collected(r) =>
              /\ searchResults[r] = ResultsOf(r)
              /\ DOMAIN docGroupsMap[r] = {GroupKeyAt(r, i) : i \in Cited(r)}
              /\ \A g \in DOMAIN docGroupsMap[r] :
                    IndicesOf(docGroupsMap[r][g].Chunks)
                        = {i \in Cited(r) : GroupKeyAt(r, i) = g}
        /\ response[r].sent =>
              /\ response[r].results
                    = [j \in 1..Len(ResultsOf(r)) |-> TruncateChunk(ResultsOf(r)[j])]
              /\ DOMAIN response[r].docGroups = {GroupKeyAt(r, i) : i \in Cited(r)}
              /\ \A g \in DOMAIN response[r].docGroups :
                    IndicesOf(response[r].docGroups[g].Chunks)
                        = {i \in Cited(r) : GroupKeyAt(r, i) = g}

\* the records of one group arrived in descending order of index
C29_Witness ==
    /\ response["r1"].sent
    /\ Len(response["r1"].results) = 3
    /\ \E g \in DOMAIN response["r1"].docGroups :
          LET chunks == response["r1"].docGroups[g].Chunks
          IN  Len(chunks) = 2 /\ chunks[1].index > chunks[2].index

\* ------------------------------------------------------------------------
\* Ingestion specification: RAG.AddDocuments, batch by batch, with the
\* retries of a batch the store rejected
\* ------------------------------------------------------------------------
\* maxRetries := 3
maxRetries == 3

\* batchSize: 10 below 50 documents, 15 below 200, 10 from 200 on
batchSize(n) == IF n < 50 THEN 10 ELSE IF n < 200 THEN 15 ELSE 10

\* totalBatches := (len(docs) + batchSize - 1) / batchSize
totalBatches(n) == (n + batchSize(n) - 1) \div batchSize(n)

\* document counts: none, one batch, several batches, each batch size
DocCounts == {0, 1, 11, 49, 50, 200}

\* what r.store.AddDocuments returns: success, a rate-limit error (its
\* message contains "rate limit", "TPM limit", ...) or another error
StoreErrors == {"nil", "rate", "other"}

AInit ==
    /\ aDocs \in DocCounts
    /\ aPc = "start"
    /\ aBatch = 0 /\ aRetry = 0 /\ aSubmits = 0 /\ aErr = "nil"
    /\ xAnswer = <<>> /\ xStage = "text" /\ xUsed = {} /\ xPrevUsed = {} /\ xAdded = 0
    /\ KQuiet
    /\ GQuiet
    /\ HStart([r \in Requests |-> "none"])

\* if len(docs) == 0 { return nil }; otherwise the loop starts at the first batch
AStart ==
    /\ aPc = "start"
    /\ IF aDocs = 0
       THEN aPc' = "ok" /\ UNCHANGED aBatch
       ELSE aPc' = "submit" /\ aBatch' = 1
    /\ UNCHANGED <<aDocs, aRetry, aSubmits, aErr, xvars, kvars, gvars, hvars>>

\* err = r.store.AddDocuments(ctx, batch, ...)
ASubmit ==
    /\ aPc = "submit"
    /\ aErr' \in StoreErrors
    /\ aSubmits' = aSubmits + 1
    /\ aPc' = "examine"
    /\ UNCHANGED <<aDocs, aBatch, aRetry, xvars, kvars, gvars, hvars>>

\* bug variant of MayRetry: every error is retried
MayRetryAnyError(err, retry) == retry < maxRetries - 1

\* if isRateLimit && retry < maxRetries-1 { Sleep; continue }
MayRetry(err, retry) == err = "rate" /\ retry < maxRetries - 1

\* the rest of the inner loop's body and what follows the loop: success goes
\* on to the next batch or ends AddDocuments; a retried error sleeps and
\* submits again; any other error is returned
AExamine ==
    /\ aPc = "examine"
    /\ IF aErr = "nil"
       THEN IF aBatch < totalBatches(aDocs)
            THEN /\ aPc' = "submit"
                 /\ aBatch' = aBatch + 1
                 /\ aRetry' = 0
                 /\ aSubmits' = 0
            ELSE /\ aPc' = "ok"
                 /\ UNCHANGED <<aBatch, aRetry, aSubmits>>
       ELSE IF MayRetry(aErr, aRetry)
            THEN /\ aPc' = "submit"
                 /\ aRetry' = aRetry + 1
                 /\ UNCHANGED <<aBatch, aSubmits>>
            ELSE /\ aPc' = "failed"
                 /\ UNCHANGED <<aBatch, aRetry, aSubmits>>
    /\ UNCHANGED <<aDocs, aErr, xvars, kvars, gvars, hvars>>

ANext == AStart \/ ASubmit \/ AExamine

SpecAdd == AInit /\ [][ANext]_vars

\* C30: AddDocuments submits each batch to the store at most 3 times; a
\* further attempt is made only after a rate-limit error on attempt 1 or 2;
\* any other error, or a rate-limit error on the third attempt, ends
\* AddDocuments with an error for that batch, and no later batch is submitted.
C30_AtMostThreeSubmissions ==
    /\ [](aSubmits <= 3)
    /\ [][(aSubmits' = aSubmits + 1 /\ aSubmits >= 1) =>
            (aErr = "rate" /\ aSubmits <= 2 /\ aBatch' = aBatch)]_vars
    /\ [][(aPc = "examine" /\ (aErr = "other" \/ (aErr = "rate" /\ aSubmits = 3))) =>
            (aPc' = "failed" /\ aBatch' = aBatch)]_vars
    /\ [][aPc = "failed" => UNCHANGED avars]_vars

C30_Witness ==
    /\ aPc = "failed"
    /\ aDocs = 11
    /\ aBatch = 2
    /\ aSubmits = 3
    /\ aErr = "rate"
====
